---- MODULE Spec2Model ----
(***************************************************************************)
(* Model of image_utils: Validator, IImageResizer.get_paths_from_dir and   *)
(* ImageResizer.resize_image / resize_bulk_images, and of the earlier      *)
(* module py_resizer/py_image_resizer.py with its own resize_image and     *)
(* resize_bulk_images.  The draft src/py_image_resizer.py has no           *)
(* behaviour to model: importing it raises (a relative import without a    *)
(* package, and tuple(str) in a signature).                                *)
(*                                                                         *)
(* A string is a sequence of one-character strings, a path is the string   *)
(* of its text ("d/a.png"), the file system maps the existing paths to the *)
(* kind of thing found there.                                              *)
(***************************************************************************)
EXTENDS Naturals, Integers, Sequences, FiniteSets, TLC

\* ------------------------------------------------------------------ bounds
MaxPaths == 1
MaxBatches == 2
MaxThreads == 3

\* ------------------------------------------------------ strings and chars
UpperLetters ==
  <<"A","B","C","D","E","F","G","H","I","J","K","L","M",
    "N","O","P","Q","R","S","T","U","V","W","X","Y","Z">>

LowerLetters ==
  <<"a","b","c","d","e","f","g","h","i","j","k","l","m",
    "n","o","p","q","r","s","t","u","v","w","x","y","z">>

LowerChar(c) ==
  IF \E i \in 1..26 : UpperLetters[i] = c
    THEN LowerLetters[CHOOSE i \in 1..26 : UpperLetters[i] = c]
    ELSE c

UpperChar(c) ==
  IF \E i \in 1..26 : LowerLetters[i] = c
    THEN UpperLetters[CHOOSE i \in 1..26 : LowerLetters[i] = c]
    ELSE c

\* str.lower()
Lower(s) == [i \in 1..Len(s) |-> LowerChar(s[i])]

\* str.upper()
Upper(s) == [i \in 1..Len(s) |-> UpperChar(s[i])]

\* s[1:]
DropFirst(s) == IF Len(s) = 0 THEN s ELSE SubSeq(s, 2, Len(s))

\* str.startswith(c) for a one-character prefix
StartsWith(s, c) == Len(s) > 0 /\ s[1] = c

\* str.endswith(t)
EndsWith(s, t) ==
  Len(s) >= Len(t) /\ SubSeq(s, Len(s) - Len(t) + 1, Len(s)) = t

\* str.rfind(c): the last 1-based index of c in s, 0 when absent
RFind(s, c) ==
  IF \E i \in 1..Len(s) : s[i] = c
    THEN CHOOSE i \in 1..Len(s) : s[i] = c /\ \A j \in (i+1)..Len(s) : s[j] # c
    ELSE 0

\* '-'.join((a, b))
JoinDash(a, b) == a \o <<"-">> \o b

\* ------------------------------------------------------------- pathlib
\* Path.name: the text after the last separator
Name(p) == SubSeq(p, RFind(p, "/") + 1, Len(p))

\* the text up to and including the last separator
DirPrefix(p) == SubSeq(p, 1, RFind(p, "/"))

\* Path.parent
Parent(p) == IF RFind(p, "/") = 0 THEN <<>> ELSE SubSeq(p, 1, RFind(p, "/") - 1)

\* Path.suffix: from the last dot of the name, unless the dot is first or last
Suffix(p) ==
  LET n == Name(p)
      i == RFind(n, ".")
  IN  IF 1 < i /\ i < Len(n) THEN SubSeq(n, i, Len(n)) ELSE <<>>

\* Path.stem
Stem(p) ==
  LET n == Name(p)
      i == RFind(n, ".")
  IN  IF 1 < i /\ i < Len(n) THEN SubSeq(n, 1, i - 1) ELSE n

\* Path.with_name(name)
WithName(p, name) == DirPrefix(p) \o name

\* Path.with_suffix(suffix)
WithSuffix(p, suffix) == WithName(p, Stem(p) \o suffix)

\* Path.with_stem(stem)
WithStem(p, stem) == WithName(p, stem \o Suffix(p))

\* ------------------------------------------------------------- settings
DEFAULT_EXTENSION == <<"j","p","e","g">>

SUPPORTED_EXTENSIONS ==
  << <<"p","n","g">>, <<"j","p","g">>, <<"g","i","f">>, <<"j","p","e","g">> >>

\* hasattr(settings, 'DEFAULT_EXTENSION')
HasDefaultExtension == TRUE

\* x in tuple
InTuple(x, t) == \E i \in 1..Len(t) : t[i] = x

\* ------------------------------------------------------- python values
None == [tag |-> "None", s |-> <<>>]

Str(s) == [tag |-> "str", s |-> s]

\* truth value of None or a str
Truthy(v) == v.tag = "str" /\ Len(v.s) > 0

\* ------------------------------------------- the paths of the model
D_DIR == <<"d">>
X_DIR == <<"x">>
M_DIR == <<"m">>
A_PNG == <<"d","/","a",".","p","n","g">>
A_JPG == <<"d","/","a",".","j","p","g">>
C_TXT == <<"d","/","c",".","t","x","t">>
B_PNG == <<"x","/","b",".","P","N","G">>
S_GIF == <<"x","/","s",".","g","i","f">>
Z_TXT == <<"x","/","z",".","t","x","t">>
R_A_JPEG == <<"d","/","r","e","s","i","z","e","d","_","a",".","j","p","e","g">>

R_A_PNG == <<"d","/","r","e","s","i","z","e","d","_","a",".","p","n","g">>

\* what is always there: two good images and a text file in d, a corrupt
\* image with an upper-case extension and a directory named like an image
\* in x
BaseFs ==
  (D_DIR :> "dir") @@ (X_DIR :> "dir") @@
  (A_PNG :> "image") @@ (A_JPG :> "image") @@ (C_TXT :> "image") @@
  (B_PNG :> "corrupt") @@ (S_GIF :> "dir")

\* the file systems a run may start from: the output of a.png is absent,
\* is a file, or is a directory; or it is a file and a.jpg is corrupt
InitFs ==
  { BaseFs, BaseFs @@ (R_A_JPEG :> "image"), BaseFs @@ (R_A_JPEG :> "dir"),
    (A_JPG :> "corrupt") @@ (R_A_JPEG :> "image") @@ BaseFs }

\* the paths an explicit list is drawn from: good images, a file that is no
\* image, a corrupt image, and Z_TXT, which never exists
InputPaths == { A_PNG, A_JPG, C_TXT, B_PNG, Z_TXT }

\* tuples of at most n elements of S
RECURSIVE TuplesUpTo(_, _)
TuplesUpTo(S, n) ==
  IF n = 0 THEN { <<>> }
  ELSE LET T == TuplesUpTo(S, n - 1)
       IN  T \cup { Append(t, x) : t \in T, x \in S }

\* img_dir values: absent, empty, a directory, a file, a missing path
ImgDirs == { None, Str(<<>>), Str(D_DIR), Str(C_TXT), Str(M_DIR) }

\* save_as values
SaveAs == { <<"j","p","g">>, <<".","P","N","G">> }

\* uuid4().hex, shortened
HexTokens == { <<"0","a">>, <<"f","f">> }

\* extensions values: absent (falls back to the supported ones) or given
ExtensionArgs ==
  { <<>>, << <<"p","n","g">>, <<"j","p","g">> >>, << <<"g","i","f">> >> }

\* --------------------------------------------------------- file system
\* Path.exists()
Exists(f, p) == p \in DOMAIN f

\* Path.is_file()
IsFile(f, p) == Exists(f, p) /\ f[p] # "dir"

\* Path.is_dir()
IsDir(f, p) == Exists(f, p) /\ f[p] = "dir"

\* ------------------------------------------------------------ Validator
\* validate_file_extensions: the exception raised, or "ok"
ValidateFileExtensions(file_) ==
  IF ~ InTuple(DropFirst(Lower(Suffix(file_))), SUPPORTED_EXTENSIONS)
    THEN "InvalidImageTypeError"
    ELSE "ok"

\* validate_path: the exception raised, or "ok"
ValidatePath(f, path) ==
  IF ~ Exists(f, path) THEN "FileNotFoundError" ELSE "ok"

\* validate_file with the extension test moved to the front
ValidateFile_extension_first(f, path) ==
  IF ValidateFileExtensions(path) # "ok" THEN ValidateFileExtensions(path)
  ELSE IF ValidatePath(f, path) # "ok" THEN ValidatePath(f, path)
  ELSE IF ~ IsFile(f, path) THEN "NotAFileError"
  ELSE "ok"

\* validate_file: the exception raised, or "ok" (the path is returned)
ValidateFile(f, path) ==
  IF ValidatePath(f, path) # "ok" THEN ValidatePath(f, path)
  ELSE IF ~ IsFile(f, path) THEN "NotAFileError"
  ELSE ValidateFileExtensions(path)

\* validate_directory: the exception raised, or "ok"
ValidateDirectory(f, path) ==
  IF ValidatePath(f, path) # "ok" THEN ValidatePath(f, path)
  ELSE IF ~ IsDir(f, path) THEN "NotADirectoryError"
  ELSE "ok"

\* validate_path_args with `or` for `and` in the first test
ValidatePathArgs_or(paths, dir) ==
  IF Len(paths) > 0 \/ Truthy(dir) THEN "MutualExclusionError"
  ELSE IF ~ (Len(paths) > 0 \/ Truthy(dir)) THEN "MissingRequiredPathError"
  ELSE "ok"

\* validate_path_args: the exception raised, or "ok"
ValidatePathArgs(paths, dir) ==
  IF Len(paths) > 0 /\ Truthy(dir) THEN "MutualExclusionError"
  ELSE IF ~ (Len(paths) > 0 \/ Truthy(dir)) THEN "MissingRequiredPathError"
  ELSE "ok"

\* ----------------------------------------------------- directory scan
\* the orders in which the file system may enumerate the set S
RECURSIVE Perms(_)
Perms(S) ==
  IF S = {} THEN { <<>> }
  ELSE UNION { { <<x>> \o t : t \in Perms(S \ {x}) } : x \in S }

\* p lies in dir (directly, or at any depth when recursive)
IsUnder(p, dir, recursive) ==
  IF recursive
    THEN Len(p) > Len(dir) + 1 /\ SubSeq(p, 1, Len(dir) + 1) = dir \o <<"/">>
    ELSE RFind(p, "/") > 0 /\ Parent(p) = dir

\* dir.glob('*.<extension>') / dir.rglob(...): the entries whose name ends
\* in .<extension>, letter case included
Glob(f, dir, extension, recursive) ==
  { p \in DOMAIN f : IsUnder(p, dir, recursive)
                     /\ EndsWith(Name(p), <<".">> \o extension) }

\* found_files with each extension's matches put in front of, not behind,
\* what was found before
RECURSIVE FoundFiles_prepend(_, _, _, _, _)
FoundFiles_prepend(f, dir, extensions, recursive, k) ==
  IF k > Len(extensions) THEN { <<>> }
  ELSE { rest \o found_image :
           found_image \in Perms(Glob(f, dir, extensions[k], recursive)),
           rest \in FoundFiles_prepend(f, dir, extensions, recursive, k + 1) }

\* the possible values of found_files after the loop over extensions[k..]
RECURSIVE FoundFiles(_, _, _, _, _)
FoundFiles(f, dir, extensions, recursive, k) ==
  IF k > Len(extensions) THEN { <<>> }
  ELSE { found_image \o rest :
           found_image \in Perms(Glob(f, dir, extensions[k], recursive)),
           rest \in FoundFiles(f, dir, extensions, recursive, k + 1) }

\* get_paths_from_dir: the possible outcomes, [err, exit, files]
GetPathsFromDir(f, dir, extensions, recursive, exit_if_empty) ==
  IF ValidateDirectory(f, dir) # "ok"
    THEN { [err |-> ValidateDirectory(f, dir), exit |-> FALSE, files |-> <<>>] }
    ELSE { [err |-> "ok", exit |-> (found_files = <<>> /\ exit_if_empty),
            files |-> found_files] :
           found_files \in FoundFiles(f, dir, extensions, recursive, 1) }

\* ------------------------------------------------------- resize_image
\* the suffix made of the extension: lower case, with a leading dot
NormalizeExtension(extension) ==
  IF StartsWith(extension, ".") THEN Lower(extension)
  ELSE <<".">> \o Lower(extension)

\* the extension in force after the settings have been consulted
EffectiveExtension(extension) ==
  IF HasDefaultExtension THEN DEFAULT_EXTENSION ELSE extension

\* img_path after the suffix has been replaced
SuffixedPath(img_path, extension) ==
  IF Len(EffectiveExtension(extension)) > 0
    THEN WithSuffix(img_path, NormalizeExtension(EffectiveExtension(extension)))
    ELSE img_path

\* img_format: the upper-cased suffix without its dot
ImgFormat(img_path, extension) ==
  DropFirst(Upper(Suffix(SuffixedPath(img_path, extension))))

RESIZED_PREFIX == <<"r","e","s","i","z","e","d","_">>

\* the candidate output path without the resized_ prefix
CandidatePath_no_prefix(img_path, extension) ==
  WithName(SuffixedPath(img_path, extension),
           Name(SuffixedPath(img_path, extension)))

\* the candidate output path: resized_<name> beside the source
CandidatePath(img_path, extension) ==
  WithName(SuffixedPath(img_path, extension),
           RESIZED_PREFIX \o Name(SuffixedPath(img_path, extension)))

\* the path after uuid4().hex has been appended to the stem
UuidPath(img_path, hex) == WithStem(img_path, JoinDash(Stem(img_path), hex))

\* formats the image library can write
RegisteredFormats == { <<"J","P","E","G">>, <<"P","N","G">>, <<"G","I","F">> }

\* resized_image.save(img_path, img_format) raises nothing
SaveSucceeds(f, img_path, img_format) ==
  /\ img_format \in RegisteredFormats
  /\ ~ IsDir(f, img_path)
  /\ IsDir(f, Parent(img_path))

\* the error save() raises before it writes anything, or "ok": the format
\* is looked up first, then the destination is opened for writing
SaveError(f, img_path, img_format) ==
  IF img_format \notin RegisteredFormats THEN "KeyError"
  ELSE IF IsDir(f, img_path) THEN "IsADirectoryError"
  ELSE IF ~ IsDir(f, Parent(img_path)) THEN "FileNotFoundError"
  ELSE "ok"

\* ------------------------------------------- py_resizer/py_image_resizer
SUPPORTED_SUFFIXES == << <<"p","n","g">>, <<"j","p","g">>, <<"g","i","f">> >>

\* validate_image_path: the exception raised, or "ok"
validate_image_path(f, img_path) ==
  IF ~ Exists(f, img_path) THEN "FileNotFoundError"
  ELSE IF ~ IsFile(f, img_path) THEN "NotAFileError"
  ELSE IF ~ InTuple(DropFirst(Lower(Suffix(img_path))), SUPPORTED_SUFFIXES)
    THEN "InvalidImageTypeError"
  ELSE "ok"

\* validate_dir_path: the exception raised, or "ok"
validate_dir_path(f, img_path) ==
  IF ~ Exists(f, img_path) THEN "FileNotFoundError"
  ELSE IF ~ IsDir(f, img_path) THEN "NotADirectoryError"
  ELSE "ok"

\* get_img_paths_from_img_dir: the possible outcomes, [err, exit, files]
get_img_paths_from_img_dir(f, img_dir, extensions, recursive, exit_if_empty) ==
  IF validate_dir_path(f, img_dir) # "ok"
    THEN { [err |-> validate_dir_path(f, img_dir), exit |-> FALSE,
            files |-> <<>>] }
    ELSE { [err |-> "ok", exit |-> (found_images = <<>> /\ exit_if_empty),
            files |-> found_images] :
           found_images \in FoundFiles(f, img_dir, extensions, recursive, 1) }

\* resize_image, lines 131-134: img_path after the requested extension, if
\* one is given, has replaced the suffix
requested_path(img_path, extension) ==
  IF Len(extension) > 0
    THEN WithSuffix(img_path, NormalizeExtension(extension))
    ELSE img_path

\* resize_image, line 137: img_format
requested_format(img_path, extension) ==
  DropFirst(Upper(Suffix(requested_path(img_path, extension))))

\* resize_image, lines 136 and 138: resized_<name> beside the source
resized_path(img_path, extension) ==
  WithName(requested_path(img_path, extension),
           RESIZED_PREFIX \o Name(requested_path(img_path, extension)))

\* Image.open(path) followed by resize: the library decodes a file that
\* holds a whole image, and fails on one that is corrupt or that a save has
\* emptied and not yet finished writing
Decodes(f, path) == f[path] = "image"

\* ------------------------------------------------------------------ state
VARIABLES
  module,                   \* the module the caller uses: "image_utils" or
                            \*   "py_resizer"
  SKIP_EXISTING_FILES,      \* settings.SKIP_EXISTING_FILES
  OVERRIDE_EXISTING_FILES,  \* settings.OVERRIDE_EXISTING_FILES
  fs,                       \* the file system: path -> "image" | "corrupt" |
                            \*   "partial" (emptied by a save, not yet written) | "dir"
  pc,                       \* where resize_bulk_images is
  args,                     \* its arguments
  image_paths,              \* the resolved input list
  threads,                  \* one record per started thread
  joined,                   \* how many threads have been joined
  error,                    \* the exception resize_bulk_images raised, or "none"
  scanned,                  \* get_paths_from_dir has been entered in this call
  batch,                    \* number of calls made so far
  prev                      \* what the previous call was given and left behind

vars ==
  << module, SKIP_EXISTING_FILES, OVERRIDE_EXISTING_FILES, fs, pc, args, image_paths,
     threads, joined, error, scanned, batch, prev >>

NoPrev ==
  [valid |-> FALSE, pc |-> "none", args |-> <<>>, outputs |-> {}, files |-> {}]

\* a thread that has just been started on img_path
NewThread(img_path) ==
  [ src |-> img_path, pc |-> "validate", img_path |-> img_path,
    img_format |-> <<>>, candidate |-> <<>>, existed |-> FALSE,
    wrote |-> FALSE, shared |-> FALSE, saved |-> FALSE, reported |-> FALSE,
    err |-> "none" ]

Terminated(t) == t.pc \in { "returned", "raised" }

\* the threads that have opened path for writing and not yet closed it
Writing(ts, path) ==
  { k \in 1..Len(ts) : ts[k].pc = "write" /\ ts[k].img_path = path }

\* what is found at the destination of thread i when it has written its
\* bytes and closes the file: its image if no sibling had the same file
\* open meanwhile; otherwise its image if the sibling has written nothing
\* since the file was last emptied, or else the bytes of the two saves laid
\* over each other, which do not decode
WrittenContent(ts, i) ==
  IF ts[i].shared THEN { "image", "corrupt" } ELSE { "image" }

\* the number of entries a scan of dir may start a thread for
ScanSize(f, dir) ==
  Cardinality({ p \in DOMAIN f :
                  IsUnder(p, dir, TRUE)
                  /\ \E k \in 1..Len(SUPPORTED_EXTENSIONS) :
                       EndsWith(Name(p), <<".">> \o SUPPORTED_EXTENSIONS[k]) })

\* the argument records of a first call: every shape of (img_paths, img_dir)
\* with a list of at most one path and either save_as, the longer explicit
\* lists without img_dir, and the scans of d with extensions or recursive
\* given
FirstArgs ==
  { [img_paths |-> ps, img_dir |-> d, save_as |-> sa,
     extensions |-> <<>>, recursive |-> FALSE] :
      ps \in TuplesUpTo(InputPaths, 1), d \in ImgDirs, sa \in SaveAs }
  \cup
  { [img_paths |-> ps, img_dir |-> None, save_as |-> <<"j","p","g">>,
     extensions |-> <<>>, recursive |-> FALSE] :
      ps \in TuplesUpTo(InputPaths, MaxPaths) }
  \cup
  { [img_paths |-> <<>>, img_dir |-> Str(D_DIR), save_as |-> <<"j","p","g">>,
     extensions |-> e, recursive |-> r] :
      e \in ExtensionArgs, r \in BOOLEAN }

\* the paths the threads of the finished call returned, in thread order
RECURSIVE ReturnedPaths(_, _)
ReturnedPaths(ts, k) ==
  IF k > Len(ts) THEN <<>>
  ELSE IF ts[k].pc = "returned"
    THEN <<ts[k].img_path>> \o ReturnedPaths(ts, k + 1)
    ELSE ReturnedPaths(ts, k + 1)

Outputs == { threads[i].img_path : i \in { j \in 1..Len(threads) : threads[j].pc = "returned" } }

FirstN(s, n) == IF Len(s) <= n THEN s ELSE SubSeq(s, 1, n)

\* the argument records of a later call: the same again, or the outputs of
\* the call that has just finished as an explicit list beside the img_dir
\* of that call
LaterArgs ==
  { args,
    [args EXCEPT !.img_paths = FirstN(ReturnedPaths(threads, 1), MaxPaths)] }

\* a second png beside a.png
E_PNG == <<"d","/","e",".","p","n","g">>

\* the file systems a direct call of get_paths_from_dir may find
ScanFs == InitFs \cup { BaseFs @@ (E_PNG :> "image") }

\* the extension tuples of a direct call: none, the claim's examples, one
\* that matches nothing, the supported ones
ScanExtensions ==
  ExtensionArgs \cup { << <<"b","m","p">> >>, SUPPORTED_EXTENSIONS }

\* the argument records of a direct call of get_paths_from_dir
ScanArgs ==
  { [img_paths |-> <<>>, img_dir |-> Str(d), save_as |-> <<>>,
     extensions |-> e, recursive |-> r, exit_if_empty |-> x] :
      d \in { D_DIR, X_DIR, C_TXT, M_DIR }, e \in ScanExtensions,
      r \in BOOLEAN, x \in BOOLEAN }

\* extension values of py_resizer: the default 'png', or None
PyResizerSaveAs == { <<"p","n","g">>, <<>> }

\* the file systems a call of py_resizer may find: the output of a.png is
\* absent, or is a directory
PyResizerFs == { BaseFs, BaseFs @@ (R_A_PNG :> "dir") }

\* the argument records of a first call of py_resizer's resize_bulk_images:
\* the explicit lists, the other shapes of (img_paths, img_dir), and the
\* scans of d and x
PyResizerArgs ==
  { [img_paths |-> ps, img_dir |-> None, save_as |-> sa,
     extensions |-> <<>>, recursive |-> FALSE] :
      ps \in TuplesUpTo(InputPaths, MaxPaths), sa \in PyResizerSaveAs }
  \cup
  { [img_paths |-> ps, img_dir |-> Str(D_DIR), save_as |-> <<"p","n","g">>,
     extensions |-> <<>>, recursive |-> FALSE] :
      ps \in { <<A_PNG>> } }
  \cup
  { [img_paths |-> <<>>, img_dir |-> Str(d), save_as |-> sa,
     extensions |-> <<>>, recursive |-> r] :
      d \in { D_DIR, X_DIR }, sa \in PyResizerSaveAs, r \in BOOLEAN }

\* the caller is about to call resize_bulk_images of image_utils, or
\* get_paths_from_dir itself (under the shipped settings, which the scan
\* does not read), or resize_bulk_images of py_resizer (which reads no
\* settings)
Init ==
  /\ \/ /\ module = "image_utils"
        /\ SKIP_EXISTING_FILES \in BOOLEAN
        /\ OVERRIDE_EXISTING_FILES \in BOOLEAN
        /\ fs \in InitFs
        /\ pc = "validate_path_args"
        /\ args \in FirstArgs
     \/ /\ module = "image_utils"
        /\ SKIP_EXISTING_FILES = TRUE
        /\ OVERRIDE_EXISTING_FILES = FALSE
        /\ fs \in ScanFs
        /\ pc = "get_paths_from_dir"
        /\ args \in ScanArgs
     \/ /\ module = "py_resizer"
        /\ SKIP_EXISTING_FILES = TRUE
        /\ OVERRIDE_EXISTING_FILES = FALSE
        /\ fs \in PyResizerFs
        /\ pc = "validate_path_args"
        /\ args \in PyResizerArgs
  /\ image_paths = <<>>
  /\ threads = <<>>
  /\ joined = 0
  /\ error = "none"
  /\ scanned = FALSE
  /\ batch = 1
  /\ prev = NoPrev

\* --------------------------------------------------- resize_bulk_images
\* what no step of a call changes
settingsVars == << module, SKIP_EXISTING_FILES, OVERRIDE_EXISTING_FILES >>

\* the step belongs to image_utils
ImageUtils == module = "image_utils"

\* the step belongs to py_resizer
PyResizer == module = "py_resizer"

\* the argument check placed after the loop that starts the threads
ValidateArgsStep_after_launch ==
  /\ ImageUtils
  /\ pc = "validate_path_args"
  /\ LET e == ValidatePathArgs(args.img_paths, args.img_dir)
     IN  IF e # "ok"
           THEN /\ pc' = "raised" /\ error' = e
                /\ image_paths' = args.img_paths
                /\ threads' = [k \in 1..Len(args.img_paths) |->
                                 NewThread(args.img_paths[k])]
           ELSE /\ pc' = "resolve" /\ error' = error
                /\ UNCHANGED << image_paths, threads >>
  /\ UNCHANGED << settingsVars, fs, args, joined, scanned, batch, prev >>

\* line 104: the argument shape is checked first
ValidateArgsStep ==
  /\ ImageUtils
  /\ pc = "validate_path_args"
  /\ LET e == ValidatePathArgs(args.img_paths, args.img_dir)
     IN  IF e # "ok"
           THEN pc' = "raised" /\ error' = e
           ELSE pc' = "resolve" /\ error' = error
  /\ UNCHANGED << settingsVars, fs, args, image_paths, threads, joined,
                  scanned, batch, prev >>

\* lines 108-109: the explicit list, or else the directory scan
ResolveStep ==
  /\ ImageUtils
  /\ pc = "resolve"
  /\ IF Len(args.img_paths) > 0
       THEN /\ image_paths' = args.img_paths
            /\ pc' = "launch"
            /\ UNCHANGED << error, scanned >>
       ELSE /\ scanned' = TRUE
            /\ \E r \in GetPathsFromDir(fs, args.img_dir.s,
                          IF Len(args.extensions) > 0 THEN args.extensions
                          ELSE SUPPORTED_EXTENSIONS,
                          args.recursive, TRUE) :
                 IF r.err # "ok"
                   THEN pc' = "raised" /\ error' = r.err
                        /\ image_paths' = image_paths
                 ELSE IF r.exit
                   THEN pc' = "exited" /\ error' = error
                        /\ image_paths' = image_paths
                 ELSE pc' = (IF r.files = <<>> THEN "returned" ELSE "launch")
                      /\ error' = error /\ image_paths' = r.files
  /\ UNCHANGED << settingsVars, fs, args, threads, joined, batch, prev >>

\* base.py lines 16-56: get_paths_from_dir called by the user directly
GetPathsFromDirCall ==
  /\ ImageUtils
  /\ pc = "get_paths_from_dir"
  /\ scanned' = TRUE
  /\ \E r \in GetPathsFromDir(fs, args.img_dir.s, args.extensions,
                                args.recursive, args.exit_if_empty) :
       IF r.err # "ok"
         THEN pc' = "raised" /\ error' = r.err /\ image_paths' = image_paths
       ELSE IF r.exit
         THEN pc' = "exited" /\ error' = error /\ image_paths' = image_paths
       ELSE pc' = "scan_returned" /\ error' = error /\ image_paths' = r.files
  /\ UNCHANGED << settingsVars, fs, args, threads, joined, batch, prev >>

\* lines 120-124: one iteration of the loop that starts the threads; after
\* the last one the call goes on to the joins
StartThread ==
  /\ ImageUtils
  /\ pc = "launch"
  /\ Len(threads) < Len(image_paths)
  /\ threads' = Append(threads, NewThread(image_paths[Len(threads) + 1]))
  /\ pc' = IF Len(threads) + 1 = Len(image_paths) THEN "join" ELSE "launch"
  /\ UNCHANGED << settingsVars, fs, args, image_paths, joined, error,
                  scanned, batch, prev >>

\* a join that does not wait for its thread
JoinThread_no_wait ==
  /\ ImageUtils
  /\ pc = "join"
  /\ joined < Len(threads)
  /\ joined' = joined + 1
  /\ pc' = IF joined + 1 = Len(threads) THEN "returned" ELSE "join"
  /\ UNCHANGED << settingsVars, fs, args, image_paths, threads, error,
                  scanned, batch, prev >>

\* lines 126-127: thread.join() returns once that thread has terminated;
\* after the last join the call returns
JoinThread ==
  /\ ImageUtils
  /\ pc = "join"
  /\ joined < Len(threads)
  /\ Terminated(threads[joined + 1])
  /\ joined' = joined + 1
  /\ pc' = IF joined + 1 = Len(threads) THEN "returned" ELSE "join"
  /\ UNCHANGED << settingsVars, fs, args, image_paths, threads, error,
                  scanned, batch, prev >>

\* ------------------------------------------------- resize_image, thread i
\* line 40: validate_file looks the source up in the file system; its
\* exception leaves resize_image
ValidateSource(i) ==
  /\ ImageUtils
  /\ i \in 1..Len(threads)
  /\ threads[i].pc = "validate"
  /\ LET t == threads[i]
         e == ValidateFile(fs, t.src)
     IN  threads' = [threads EXCEPT ![i] =
           IF e # "ok" THEN [t EXCEPT !.pc = "raised", !.err = e]
           ELSE [t EXCEPT !.pc = "open"]]
  /\ UNCHANGED << settingsVars, fs, pc, args, image_paths, joined, error,
                  scanned, batch, prev >>

\* lines 41-47: Image.open reads the source as it is by now, the siblings
\* having run since line 40, and the image is resized (with an image
\* library that still has Image.ANTIALIAS); a file that is corrupt, or that
\* a sibling is in the middle of saving, fails to decode
OpenSource(i) ==
  /\ ImageUtils
  /\ i \in 1..Len(threads)
  /\ threads[i].pc = "open"
  /\ LET t == threads[i]
     IN  threads' = [threads EXCEPT ![i] =
           IF ~ Decodes(fs, t.src)
             THEN [t EXCEPT !.pc = "raised", !.err = "UnidentifiedImageError"]
           ELSE [t EXCEPT !.pc = "name"]]
  /\ UNCHANGED << settingsVars, fs, pc, args, image_paths, joined, error,
                  scanned, batch, prev >>

\* lines 43-69: the output name, the check for an existing file, the policy
NameOutput(i) ==
  /\ ImageUtils
  /\ i \in 1..Len(threads)
  /\ threads[i].pc = "name"
  /\ LET t == threads[i]
         c == CandidatePath(t.img_path, args.save_as)
         f == ImgFormat(t.img_path, args.save_as)
         n == [t EXCEPT !.candidate = c, !.img_format = f, !.img_path = c,
                        !.existed = Exists(fs, c)]
     IN  IF Exists(fs, c)
           THEN IF ~ SKIP_EXISTING_FILES
                  THEN threads' = [threads EXCEPT ![i] = [n EXCEPT !.pc = "returned"]]
                ELSE IF ~ OVERRIDE_EXISTING_FILES
                  THEN \E hex \in HexTokens :
                         threads' = [threads EXCEPT ![i] =
                           [n EXCEPT !.pc = "save", !.img_path = UuidPath(c, hex)]]
                ELSE threads' = [threads EXCEPT ![i] = [n EXCEPT !.pc = "save"]]
           ELSE threads' = [threads EXCEPT ![i] = [n EXCEPT !.pc = "save"]]
  /\ UNCHANGED << settingsVars, fs, pc, args, image_paths, joined, error,
                  scanned, batch, prev >>

\* line 71, first half: save() looks the format up and opens the destination
\* for writing, which creates it or empties the file that is there; the
\* bytes follow in SaveWrite, and the siblings run in between.  A save that
\* cannot start raises; lines 72-76 print the exception and drop it, then
\* print 'Resized image - ... (saved at ...)' and return img_path
SaveOpen(i) ==
  /\ ImageUtils
  /\ i \in 1..Len(threads)
  /\ threads[i].pc = "save"
  /\ LET t == threads[i]
         ok == SaveSucceeds(fs, t.img_path, t.img_format)
     IN  /\ threads' =
               [k \in 1..Len(threads) |->
                  IF k = i
                    THEN IF ok
                           THEN [t EXCEPT !.pc = "write", !.wrote = TRUE,
                                          !.shared = Writing(threads, t.img_path) # {}]
                           ELSE [t EXCEPT !.pc = "returned", !.wrote = TRUE,
                                          !.saved = FALSE, !.reported = TRUE]
                  ELSE IF ok /\ k \in Writing(threads, t.img_path)
                    THEN [threads[k] EXCEPT !.shared = TRUE]
                  ELSE threads[k]]
         /\ fs' = IF ok
                    THEN [p \in DOMAIN fs \cup {t.img_path} |->
                            IF p = t.img_path THEN "partial" ELSE fs[p]]
                    ELSE fs
  /\ UNCHANGED << settingsVars, pc, args, image_paths, joined, error,
                  scanned, batch, prev >>

\* line 71, second half: the bytes are written and the file is closed; then
\* lines 74-76, the message and return img_path
SaveWrite(i) ==
  /\ ImageUtils
  /\ i \in 1..Len(threads)
  /\ threads[i].pc = "write"
  /\ LET t == threads[i]
     IN  /\ threads' = [threads EXCEPT ![i] =
                          [t EXCEPT !.pc = "returned", !.saved = TRUE,
                                    !.reported = TRUE]]
         /\ \E content \in WrittenContent(threads, i) :
              fs' = [fs EXCEPT ![t.img_path] = content]
  /\ UNCHANGED << settingsVars, pc, args, image_paths, joined, error,
                  scanned, batch, prev >>

\* ------------------------------------- py_resizer: resize_bulk_images
\* lines 169-174: the two tests on the shape of the arguments
resize_bulk_images_check ==
  /\ PyResizer
  /\ pc = "validate_path_args"
  /\ IF Len(args.img_paths) > 0 /\ Truthy(args.img_dir)
       THEN pc' = "raised" /\ error' = "MutualExclusionError"
     ELSE IF ~ (Len(args.img_paths) > 0 \/ Truthy(args.img_dir))
       THEN pc' = "raised" /\ error' = "MissingRequiredPathError"
     ELSE pc' = "resolve" /\ error' = error
  /\ UNCHANGED << settingsVars, fs, args, image_paths, threads, joined,
                  scanned, batch, prev >>

\* lines 178-179: img_paths, or else the scan of img_dir for extensions or
\* SUPPORTED_SUFFIXES, which exits the process when it finds nothing
resize_bulk_images_resolve ==
  /\ PyResizer
  /\ pc = "resolve"
  /\ IF Len(args.img_paths) > 0
       THEN /\ image_paths' = args.img_paths
            /\ pc' = "launch"
            /\ UNCHANGED << error, scanned >>
       ELSE /\ scanned' = TRUE
            /\ \E r \in get_img_paths_from_img_dir(fs, args.img_dir.s,
                          IF Len(args.extensions) > 0 THEN args.extensions
                          ELSE SUPPORTED_SUFFIXES,
                          args.recursive, TRUE) :
                 IF r.err # "ok"
                   THEN pc' = "raised" /\ error' = r.err
                        /\ image_paths' = image_paths
                 ELSE IF r.exit
                   THEN pc' = "exited" /\ error' = error
                        /\ image_paths' = image_paths
                 ELSE pc' = "launch" /\ error' = error
                      /\ image_paths' = r.files
  /\ UNCHANGED << settingsVars, fs, args, threads, joined, batch, prev >>

\* lines 190-193: one iteration of the loop that starts the threads
resize_bulk_images_start ==
  /\ PyResizer
  /\ pc = "launch"
  /\ Len(threads) < Len(image_paths)
  /\ threads' = Append(threads, NewThread(image_paths[Len(threads) + 1]))
  /\ pc' = IF Len(threads) + 1 = Len(image_paths) THEN "join" ELSE "launch"
  /\ UNCHANGED << settingsVars, fs, args, image_paths, joined, error,
                  scanned, batch, prev >>

\* lines 195-196: thread.join() returns once that thread has terminated
resize_bulk_images_join ==
  /\ PyResizer
  /\ pc = "join"
  /\ joined < Len(threads)
  /\ Terminated(threads[joined + 1])
  /\ joined' = joined + 1
  /\ pc' = IF joined + 1 = Len(threads) THEN "returned" ELSE "join"
  /\ UNCHANGED << settingsVars, fs, args, image_paths, threads, error,
                  scanned, batch, prev >>

\* ------------------------------------ py_resizer: resize_image, thread i
\* lines 113-124 and 143-144: validate the source, a validation error
\* being caught, printed and answered with False.  (Path.resolve() makes the
\* path absolute; the paths here already are what it returns.)
resize_image_validate(i) ==
  /\ PyResizer
  /\ i \in 1..Len(threads)
  /\ threads[i].pc = "validate"
  /\ LET t == threads[i]
         e == validate_image_path(fs, t.src)
     IN  threads' = [threads EXCEPT ![i] =
           IF e # "ok" THEN [t EXCEPT !.pc = "returned", !.err = e]
           ELSE [t EXCEPT !.pc = "open"]]
  /\ UNCHANGED << settingsVars, fs, pc, args, image_paths, joined, error,
                  scanned, batch, prev >>

\* lines 126-138: Image.open reads the source as it is by now and the image
\* is resized, a decode error leaving the function; then the output name
\* and format
resize_image_open(i) ==
  /\ PyResizer
  /\ i \in 1..Len(threads)
  /\ threads[i].pc = "open"
  /\ LET t == threads[i]
     IN  threads' = [threads EXCEPT ![i] =
           IF ~ Decodes(fs, t.src)
             THEN [t EXCEPT !.pc = "raised", !.err = "UnidentifiedImageError"]
           ELSE [t EXCEPT !.pc = "save",
                          !.img_path = resized_path(t.src, args.save_as),
                          !.candidate = resized_path(t.src, args.save_as),
                          !.img_format = requested_format(t.src, args.save_as)]]
  /\ UNCHANGED << settingsVars, fs, pc, args, image_paths, joined, error,
                  scanned, batch, prev >>

\* line 139, first half: save() looks the format up and opens the
\* destination for writing, whatever is there; an error leaves the function
resize_image_save(i) ==
  /\ PyResizer
  /\ i \in 1..Len(threads)
  /\ threads[i].pc = "save"
  /\ LET t == threads[i]
         e == SaveError(fs, t.img_path, t.img_format)
     IN  /\ threads' =
               [k \in 1..Len(threads) |->
                  IF k = i
                    THEN IF e = "ok"
                           THEN [t EXCEPT !.pc = "write", !.wrote = TRUE,
                                          !.shared = Writing(threads, t.img_path) # {}]
                           ELSE [t EXCEPT !.pc = "raised", !.wrote = TRUE,
                                          !.err = e]
                  ELSE IF e = "ok" /\ k \in Writing(threads, t.img_path)
                    THEN [threads[k] EXCEPT !.shared = TRUE]
                  ELSE threads[k]]
         /\ fs' = IF e = "ok"
                    THEN [p \in DOMAIN fs \cup {t.img_path} |->
                            IF p = t.img_path THEN "partial" ELSE fs[p]]
                    ELSE fs
  /\ UNCHANGED << settingsVars, pc, args, image_paths, joined, error,
                  scanned, batch, prev >>

\* line 139, second half: the bytes are written and the file is closed;
\* then lines 140-142, the message and return True
resize_image_write(i) ==
  /\ PyResizer
  /\ i \in 1..Len(threads)
  /\ threads[i].pc = "write"
  /\ LET t == threads[i]
     IN  /\ threads' = [threads EXCEPT ![i] =
                          [t EXCEPT !.pc = "returned", !.saved = TRUE,
                                    !.reported = TRUE]]
         /\ \E content \in WrittenContent(threads, i) :
              fs' = [fs EXCEPT ![t.img_path] = content]
  /\ UNCHANGED << settingsVars, pc, args, image_paths, joined, error,
                  scanned, batch, prev >>

\* ------------------------------------------------------------ next call
\* the caller calls resize_bulk_images of the same module again; py_resizer
\* returns no paths, so its caller can only repeat the arguments
NextCall ==
  /\ pc = "returned"
  /\ batch < MaxBatches
  /\ \E a \in (IF PyResizer THEN { args } ELSE LaterArgs) :
       /\ Truthy(a.img_dir) /\ IsDir(fs, a.img_dir.s)
            => ScanSize(fs, a.img_dir.s) <= MaxThreads
       /\ args' = a
  /\ prev' = [valid |-> TRUE, pc |-> pc, args |-> args, outputs |-> Outputs,
              files |-> DOMAIN fs]
  /\ pc' = "validate_path_args"
  /\ image_paths' = <<>>
  /\ threads' = <<>>
  /\ joined' = 0
  /\ error' = "none"
  /\ scanned' = FALSE
  /\ batch' = batch + 1
  /\ UNCHANGED << settingsVars, fs >>

Next ==
  \/ ValidateArgsStep
  \/ ResolveStep
  \/ GetPathsFromDirCall
  \/ StartThread
  \/ JoinThread
  \/ \E i \in 1..Len(threads) : ValidateSource(i)
  \/ \E i \in 1..Len(threads) : OpenSource(i)
  \/ \E i \in 1..Len(threads) : NameOutput(i)
  \/ \E i \in 1..Len(threads) : SaveOpen(i)
  \/ \E i \in 1..Len(threads) : SaveWrite(i)
  \/ resize_bulk_images_check
  \/ resize_bulk_images_resolve
  \/ resize_bulk_images_start
  \/ resize_bulk_images_join
  \/ \E i \in 1..Len(threads) : resize_image_validate(i)
  \/ \E i \in 1..Len(threads) : resize_image_open(i)
  \/ \E i \in 1..Len(threads) : resize_image_save(i)
  \/ \E i \in 1..Len(threads) : resize_image_write(i)
  \/ NextCall

Spec == Init /\ [][Next]_vars

\* -------------------------------------------------------------- typing
TypeOK ==
  /\ module \in { "image_utils", "py_resizer" }
  /\ pc \in { "validate_path_args", "resolve", "launch", "join",
              "returned", "raised", "exited",
              "get_paths_from_dir", "scan_returned" }
  /\ joined \in 0..Len(threads)
  /\ Len(threads) <= Len(image_paths)
  /\ batch \in 1..MaxBatches

\* ------------------------------------------------------------- claims
ArgShapeErrors == { "MutualExclusionError", "MissingRequiredPathError" }

\* img_paths is a non-empty tuple
PathsSupplied == args.img_paths # <<>>

\* img_dir is neither None nor the empty string
DirSupplied == args.img_dir # None /\ args.img_dir # Str(<<>>)

\* C1: once validate_path_args has run, the call has failed with
\* MutualExclusionError if both img_paths and img_dir were supplied, with
\* MissingRequiredPathError if neither was, and with neither error if exactly
\* one was.
C1_ValidatePathArgs ==
  (ImageUtils /\ pc # "validate_path_args") =>
    /\ (PathsSupplied /\ DirSupplied)
         => (pc = "raised" /\ error = "MutualExclusionError")
    /\ (~ PathsSupplied /\ ~ DirSupplied)
         => (pc = "raised" /\ error = "MissingRequiredPathError")
    /\ (PathsSupplied # DirSupplied) => error \notin ArgShapeErrors

\* C1 witness: a call given both an explicit list and a directory has failed
C1_Witness ==
  /\ ImageUtils
  /\ pc = "raised" /\ error = "MutualExclusionError"
  /\ PathsSupplied /\ DirSupplied

\* C2: when resize_bulk_images has failed on the shape of its arguments, no
\* directory scan has been entered, no input list has been resolved and no
\* thread has been started in that call, and the file system is as the
\* call found it.
C2_FailFast ==
  (ImageUtils /\ error \in ArgShapeErrors) =>
    /\ ~ scanned
    /\ image_paths = <<>>
    /\ threads = <<>>
    /\ prev.valid => DOMAIN fs = prev.files

\* C2 witness: a second call, made after a call that started threads, has
\* failed on the shape of its arguments
C2_Witness ==
  /\ ImageUtils
  /\ pc = "raised" /\ error \in ArgShapeErrors
  /\ prev.valid /\ prev.outputs # {}

\* C3: when resize_bulk_images returns, it has started exactly one thread per
\* element of the resolved input list, in order, and every one of them has
\* terminated; while it is joining, the threads it started are already one
\* per element.
C3_OneTaskPerInputFullJoin ==
  (ImageUtils /\ pc \in { "join", "returned" }) =>
    /\ Len(threads) = Len(image_paths)
    /\ \A i \in 1..Len(threads) : threads[i].src = image_paths[i]
    /\ pc = "returned" => \A i \in 1..Len(threads) : Terminated(threads[i])

\* C3 witness: a call over at least two inputs has returned
C3_Witness ==
  /\ ImageUtils
  /\ pc = "returned" /\ Len(image_paths) >= 2
  /\ \E i \in 1..Len(threads) : threads[i].saved

\* C4: no two threads started for distinct input files have both saved to
\* the same destination path.
C4_DistinctDestinations ==
  \A i, j \in 1..Len(threads) :
    (ImageUtils /\ i # j /\ threads[i].src # threads[j].src
       /\ threads[i].saved /\ threads[j].saved)
      => threads[i].img_path # threads[j].img_path

\* C5: with SKIP_EXISTING_FILES true, a thread that found a file at its
\* candidate path keeps the candidate path, goes on to no save and writes
\* nothing.
C5_SkipExisting ==
  \A i \in 1..Len(threads) :
    (ImageUtils /\ SKIP_EXISTING_FILES /\ threads[i].existed
       /\ IsFile(fs, threads[i].candidate))
      => /\ threads[i].img_path = threads[i].candidate
         /\ threads[i].pc = "returned"
         /\ ~ threads[i].wrote

\* a validated, decodable source
GoodSource(p) == IsFile(fs, p) /\ Decodes(fs, p) /\ ValidateFile(fs, p) = "ok"

\* C6: a thread that failed validation or decode leaves resize_bulk_images
\* without an exception, leaves every sibling whose source is a valid,
\* decodable image file free of any exception, and, once the call has
\* returned, every thread has terminated and every such sibling that went
\* on to save to a path that is no directory has written its file.
C6_FailureIsolation ==
  \A i \in 1..Len(threads) :
    (ImageUtils /\ threads[i].pc = "raised") =>
      /\ pc \in { "launch", "join", "returned" }
      /\ error = "none"
      /\ \A j \in 1..Len(threads) :
           (j # i /\ GoodSource(threads[j].src)) =>
             /\ threads[j].pc # "raised"
             /\ threads[j].err = "none"
             /\ pc = "returned" =>
                  /\ threads[j].pc = "returned"
                  /\ (threads[j].wrote /\ ~ IsDir(fs, threads[j].img_path))
                       => (threads[j].saved /\ IsFile(fs, threads[j].img_path))

\* the requested format as a lower-case extension without a leading dot
RequestedExtension ==
  Lower(IF StartsWith(args.save_as, ".") THEN DropFirst(args.save_as)
        ELSE args.save_as)

\* C7: a thread that found no file at its candidate path has the output path
\* resized_<stem>.<requested format, lower case> beside its source.
C7_TargetFormatSuffix ==
  \A i \in 1..Len(threads) :
    (ImageUtils /\ threads[i].candidate # <<>> /\ ~ threads[i].existed) =>
      threads[i].img_path =
        DirPrefix(threads[i].src) \o RESIZED_PREFIX \o Stem(threads[i].src)
          \o <<".">> \o RequestedExtension

\* C8: with OVERRIDE_EXISTING_FILES true (and SKIP_EXISTING_FILES as shipped,
\* so that the override branch is the one taken), a call that repeats the
\* arguments of the call before it returns the same set of output paths,
\* leaves the same set of files behind and has written every path it
\* returned.
C8_BatchIdempotence ==
  (ImageUtils /\ pc = "returned" /\ prev.valid /\ prev.args = args
     /\ SKIP_EXISTING_FILES /\ OVERRIDE_EXISTING_FILES) =>
    /\ Outputs = prev.outputs
    /\ DOMAIN fs = prev.files
    /\ \A i \in 1..Len(threads) :
         threads[i].pc = "returned" => threads[i].wrote

\* C9: with neither SKIP_EXISTING_FILES nor OVERRIDE_EXISTING_FILES, a thread
\* that found a file at its candidate path ends with a path of the form
\* <candidate stem>-<hex><candidate suffix> beside it, other than the
\* candidate.
C9_UniqueSuffix ==
  \A i \in 1..Len(threads) :
    (ImageUtils /\ ~ SKIP_EXISTING_FILES /\ ~ OVERRIDE_EXISTING_FILES
       /\ threads[i].existed
       /\ IsFile(fs, threads[i].candidate)) =>
      /\ \E hex \in HexTokens :
           threads[i].img_path =
             DirPrefix(threads[i].candidate) \o Stem(threads[i].candidate)
               \o <<"-">> \o hex \o Suffix(threads[i].candidate)
      /\ threads[i].img_path # threads[i].candidate

\* the lower-cased name ends in a dot and a supported extension
HasSupportedExtension(p) ==
  \E e \in { <<"p","n","g">>, <<"j","p","g">>, <<"g","i","f">>,
             <<"j","p","e","g">> } :
    /\ EndsWith(Lower(Name(p)), <<".">> \o e)
    /\ Len(Name(p)) > Len(e) + 1

ValidationErrors ==
  { "FileNotFoundError", "NotAFileError", "InvalidImageTypeError" }

\* C10: every step in which a thread runs validate_file ends in
\* FileNotFoundError if the path does not exist, else in NotAFileError if it
\* is a directory, else in InvalidImageTypeError if its lower-cased extension
\* is not a supported one, and otherwise passes validation with the path
\* unchanged, whatever the letter case of the extension.
C10_ValidateFileOrder ==
  [][ \A i \in 1..Len(threads) :
        (ImageUtils /\ threads[i].pc = "validate" /\ Len(threads') >= i
           /\ threads'[i].pc # "validate") =>
          LET p == threads[i].src
              t == threads'[i]
          IN  /\ ~ Exists(fs, p) => t.err = "FileNotFoundError"
              /\ (Exists(fs, p) /\ fs[p] = "dir") => t.err = "NotAFileError"
              /\ (Exists(fs, p) /\ fs[p] # "dir" /\ ~ HasSupportedExtension(p))
                   => t.err = "InvalidImageTypeError"
              /\ (Exists(fs, p) /\ fs[p] # "dir" /\ HasSupportedExtension(p))
                   => (t.err \notin ValidationErrors /\ t.img_path = p)
    ]_vars

\* C10 witness: x/b.PNG, an existing file with an upper-case supported
\* extension, has passed validate_file (and then failed to decode)
C10_Witness ==
  \E i \in 1..Len(threads) :
    /\ ImageUtils
    /\ threads[i].src = B_PNG
    /\ threads[i].err = "UnidentifiedImageError"

\* the step is a run of get_paths_from_dir over an existing directory
ScanStep ==
  /\ ImageUtils
  /\ \/ pc = "get_paths_from_dir"
     \/ pc = "resolve" /\ args.img_paths = <<>>
  /\ IsDir(fs, args.img_dir.s)

\* the extension tuple the scan is given
ScanExtensionsGiven ==
  IF pc = "resolve" /\ args.extensions = <<>> THEN SUPPORTED_EXTENSIONS
  ELSE args.extensions

\* exit_if_empty as the scan is given it
ScanExitIfEmpty == pc = "resolve" \/ args.exit_if_empty

\* the name of p ends in a dot and the k-th extension given
MatchesExtension(p, k) ==
  EndsWith(Name(p), <<".">> \o ScanExtensionsGiven[k])

\* p is an entry of the scanned directory (at any depth when recursive)
InScannedDir(p) ==
  /\ Len(p) > Len(args.img_dir.s) + 1
  /\ SubSeq(p, 1, Len(args.img_dir.s) + 1) = args.img_dir.s \o <<"/">>
  /\ args.recursive
       \/ \A i \in (Len(args.img_dir.s) + 2)..Len(p) : p[i] # "/"

\* the entries of the scanned directory with one of the extensions given
MatchingEntries ==
  { p \in DOMAIN fs :
      InScannedDir(p)
      /\ \E k \in 1..Len(ScanExtensionsGiven) : MatchesExtension(p, k) }

\* the first extension given that p matches
ExtensionIndex(p) ==
  CHOOSE k \in 1..Len(ScanExtensionsGiven) :
    MatchesExtension(p, k) /\ \A j \in 1..(k - 1) : ~ MatchesExtension(p, j)

\* res lists every element of S once, grouped in the order of the extensions
GroupedListing(res, S) ==
  /\ { res[i] : i \in 1..Len(res) } = S
  /\ Len(res) = Cardinality(S)
  /\ \A i, j \in 1..Len(res) :
       i < j => ExtensionIndex(res[i]) <= ExtensionIndex(res[j])

\* C11 as stated: every run of get_paths_from_dir over a directory returns
\* to its caller the files, and only the files, with one of the extensions
\* given, grouped in the order of the extensions, and returns the empty
\* sequence when nothing matches.
C11_ScanReturnsFiles ==
  [][ ScanStep =>
        /\ pc' \in { "launch", "returned", "scan_returned" }
        /\ GroupedListing(image_paths',
                          { p \in MatchingEntries : IsFile(fs, p) })
    ]_vars

\* C11 as amended: every run of get_paths_from_dir over a directory that
\* has entries, files or directories, whose names end in a dot and one of
\* the extensions given (letter case included) returns exactly those
\* entries, grouped in the order of the extensions; when there is none it
\* returns the empty sequence if exit_if_empty is false and otherwise, as
\* always when resize_bulk_images calls it, exits the process.
C11_ScanReturnsEntries ==
  [][ ScanStep =>
        IF MatchingEntries = {}
          THEN IF ScanExitIfEmpty
                 THEN pc' = "exited" /\ image_paths' = <<>>
                 ELSE pc' = "scan_returned" /\ image_paths' = <<>>
          ELSE /\ pc' \in { "launch", "scan_returned" }
               /\ GroupedListing(image_paths', MatchingEntries)
    ]_vars

\* C11 witness: a scan of d for (png, jpg) has returned d/a.png before
\* d/a.jpg and left out d/c.txt
C11_Witness ==
  /\ ImageUtils
  /\ pc = "scan_returned"
  /\ args.extensions = << <<"p","n","g">>, <<"j","p","g">> >>
  /\ image_paths = << A_PNG, A_JPG >>

\* C12: no thread ends in an exception that left resize_image, and no thread
\* whose save failed has reported the image as resized and saved.
C12_FailuresCaughtAndRecorded ==
  \A i \in 1..Len(threads) :
    ImageUtils =>
      /\ threads[i].pc # "raised"
      /\ (threads[i].wrote /\ ~ threads[i].saved) => ~ threads[i].reported

\* C13: in every call of every sequence of calls, the path a thread has
\* computed, is about to save to, has saved to or has returned lies in the
\* directory of the thread's source and is not the source itself.
C13_DestinationBesideSource ==
  \A i \in 1..Len(threads) :
    (ImageUtils /\ threads[i].candidate # <<>>) =>
      /\ Parent(threads[i].candidate) = Parent(threads[i].src)
      /\ Parent(threads[i].img_path) = Parent(threads[i].src)
      /\ threads[i].candidate # threads[i].src
      /\ threads[i].img_path # threads[i].src

\* C13 witness: in a later call a thread whose source is an output of the
\* call before has saved its own output
C13_Witness ==
  /\ ImageUtils
  /\ prev.valid
  /\ \E i \in 1..Len(threads) :
       /\ threads[i].src \in prev.outputs
       /\ threads[i].saved

====
